---- MODULE Spec2Model ----
(***************************************************************************)
(* The report dashboard of static(files)/js/reportes-dashboard.js:         *)
(* ReportDashboard (cache, in-flight registry, cards, range picker), the   *)
(* network requests it issues and the ReportModal dialogs.                 *)
(***************************************************************************)
EXTENDS Integers, Sequences, FiniteSets, TLC

VARIABLES
    globalFilters,    \* this.globalFilters: [start, end]
    cache,            \* this.cache: cacheKey -> payload
    loadingPromises,  \* this.loadingPromises: cacheKey -> id of the pending promise
    requests,         \* every fetch() issued so far, in order; index = promise id
    cardState,        \* per card element: dataset.loaded, observed, loading class, value text;
                      \* history: lazyLoads, the loads the observer started for the
                      \* card since the last clearCache
    lastSettled,      \* history: the request that settled last and how it ended
    stored,           \* history: cacheKey -> the payload the latest successful request
                      \* for that key resolved with, since the last clearCache
    harness,          \* direct callers of fetchReport (specification SpecFetch)
    modalState,       \* per modal element: the fields of its ReportModal and its inputs
    activeModal       \* this.activeModal: a modal, or NoModal for null

vars ==
    <<globalFilters, cache, loadingPromises, requests, cardState, lastSettled, stored, harness,
      modalState, activeModal>>

\* Number of fetch() calls a behaviour may issue.
MaxRequests == 3

\* Number of fetch() calls a behaviour of a modals page may issue, and number
\* of runs that may wait on one of them.
MaxRuns == 2
MaxWaiters == 2

(***************************************************************************)
(* JavaScript values                                                       *)
(***************************************************************************)
Null == "<null>"
Undefined == "<undefined>"
EmDash == "<em-dash>"
Ellipsis == "<ellipsis>"

\* if (value): the filter values of the model are strings, null or undefined.
Truthy(v) == v \notin {"", Null, Undefined}

\* a || b
OrElse(a, b) == IF Truthy(a) THEN a ELSE b

\* a ?? b
Coalesce(a, b) == IF a \in {Null, Undefined} THEN b ELSE a

\* A plain object is the sequence of its <<key, value>> properties in
\* insertion order; keys are unique.
ObjHas(o, k) == \E i \in DOMAIN o : o[i][1] = k

ObjGet(o, k) ==
    IF ObjHas(o, k) THEN o[CHOOSE i \in DOMAIN o : o[i][1] = k][2] ELSE Undefined

\* o[k] = v: an existing property keeps its position, a new one goes last.
ObjSet(o, k, v) ==
    IF ObjHas(o, k)
    THEN [i \in DOMAIN o |-> IF o[i][1] = k THEN <<k, v>> ELSE o[i]]
    ELSE Append(o, <<k, v>>)

\* Object.assign(target, source)
RECURSIVE ObjAssign(_, _)
ObjAssign(target, source) ==
    IF source = <<>> THEN target
    ELSE ObjAssign(ObjSet(target, source[1][1], source[1][2]), Tail(source))

\* JSON.stringify(object): the properties in insertion order, those whose
\* value is undefined left out.  The text is represented by that sequence.
JSONstringify(o) == SelectSeq(o, LAMBDA e : e[2] # Undefined)

\* Map.set / Map.delete on a map held as a function.
MapSet(m, k, v) == (k :> v) @@ m
MapDelete(m, k) == [x \in DOMAIN m \ {k} |-> m[x]]
EmptyMap == <<>>

(***************************************************************************)
(* REPORT_CONFIG: the fields fetchReport reads.                            *)
(***************************************************************************)
RangeMap == << <<"start", "fecha_inicio">>, <<"end", "fecha_fin">> >>

ReportTypes ==
    {"total-sales", "sales-cost", "inventory-cost", "sales-period", "profit-period",
     "product-sales", "category-analysis", "cash-status", "credit-installments"}

Descriptor(endpoint, supportsRange, paramMap, defaultFilters) ==
    [endpoint |-> endpoint, supportsRange |-> supportsRange,
     paramMap |-> paramMap, defaultFilters |-> defaultFilters]

REPORT_CONFIG ==
    [t \in ReportTypes |->
        CASE t = "total-sales" ->
                Descriptor("/app/reportes/ventas-totales/", TRUE, RangeMap, <<>>)
          [] t = "sales-cost" ->
                Descriptor("/app/reportes/costo-ventas/", TRUE, RangeMap, <<>>)
          [] t = "inventory-cost" ->
                Descriptor("/app/reportes/costo-inventario/", FALSE, <<>>, <<>>)
          [] t = "sales-period" ->
                Descriptor("/app/reportes/ventas-periodo/", TRUE,
                           RangeMap \o << <<"period", "period">> >>, <<>>)
          [] t = "profit-period" ->
                Descriptor("/app/reportes/ganancias-periodo/", TRUE,
                           RangeMap \o << <<"period", "period">> >>, <<>>)
          [] t = "product-sales" ->
                Descriptor("/app/reportes/ventas-producto/", TRUE,
                           RangeMap \o << <<"search", "q">> >>, <<>>)
          [] t = "category-analysis" ->
                Descriptor("/app/reportes/categorias-analitico/", FALSE,
                           << <<"search", "q">> >>, <<>>)
          [] t = "cash-status" ->
                Descriptor("/app/reportes/caja/", TRUE,
                           RangeMap \o << <<"page_size", "page_size">> >>,
                           << <<"page_size", "10">> >>)
          [] t = "credit-installments" ->
                Descriptor("/app/reportes/cuotas/", TRUE,
                           RangeMap \o << <<"status", "estado">> >>, <<>>)]

\* this.config[type] is defined
HasConfig(type) == type \in DOMAIN REPORT_CONFIG

(***************************************************************************)
(* Promises and network outcomes                                           *)
(***************************************************************************)
TimeoutMessage == "La peticion tomo demasiado tiempo"

\* The value of a promise that holds no payload.
NoData == [display |-> Undefined, rows |-> 0]

Resolved(data) == [state |-> "resolved", data |-> data, name |-> "", message |-> ""]
Rejected(name, message) ==
    [state |-> "rejected", data |-> NoData, name |-> name, message |-> message]
Unsettled == [state |-> "pending", data |-> NoData, name |-> "", message |-> ""]

\* What fetchReport returns: a settled promise, or the pending promise `id`.
SettledPromise(outcome) == [id |-> 0, outcome |-> outcome]
PendingPromise(id) == [id |-> id, outcome |-> Unsettled]

\* The JSON bodies the endpoints answer with: the headline field the card
\* shows and the number of records.
Payloads ==
    {[display |-> "RD$1,000.00", rows |-> 0], [display |-> "RD$2,500.00", rows |-> 2]}

\* HTTP statuses of the answers; response.ok is a 2xx status.
Statuses == {200, 500}
ResponseOk(status) == status \in 200..299

\* What the two range inputs hold when the apply button is clicked: no
\* range, or a range.
RangeInputs == {<<"", "">>, <<"2024-01-01", "2024-01-31">>}

(***************************************************************************)
(* The page: cardElements, the elements carrying data-report-trigger in    *)
(* document order; cardState[i].type is the attribute's value.             *)
(***************************************************************************)
CardIds == DOMAIN cardState

\* initCards: this.cards maps a configured type to the last card of that type;
\* a Map iterates in the order its keys were first set.
RECURSIVE cardsOrder(_, _, _)
cardsOrder(cards, i, seen) ==
    IF i > Len(cards) THEN <<>>
    ELSE IF HasConfig(cards[i].type) /\ cards[i].type \notin seen
         THEN <<cards[i].type>> \o cardsOrder(cards, i + 1, seen \cup {cards[i].type})
         ELSE cardsOrder(cards, i + 1, seen)

cardsGet(cards, type) ==
    CHOOSE i \in DOMAIN cards :
        /\ cards[i].type = type
        /\ \A j \in DOMAIN cards : cards[j].type = type => j <= i

(***************************************************************************)
(* The state of the dashboard as one record, so that the methods are       *)
(* operators from state to state.  What a handler puts out is part of the  *)
(* record: toasts, the showToast calls it made, and unhandled, the number  *)
(* of promises that rejected with no reaction chained on them.             *)
(***************************************************************************)
Dash ==
    [globalFilters |-> globalFilters, cache |-> cache,
     loadingPromises |-> loadingPromises, requests |-> requests,
     cardState |-> cardState, lastSettled |-> lastSettled, stored |-> stored,
     harness |-> harness, modalState |-> modalState, activeModal |-> activeModal,
     toasts |-> <<>>, unhandled |-> 0]

Becomes(s) ==
    /\ globalFilters' = s.globalFilters
    /\ cache' = s.cache
    /\ loadingPromises' = s.loadingPromises
    /\ requests' = s.requests
    /\ cardState' = s.cardState
    /\ lastSettled' = s.lastSettled
    /\ stored' = s.stored
    /\ harness' = s.harness
    /\ modalState' = s.modalState
    /\ activeModal' = s.activeModal

(***************************************************************************)
(* ReportDashboard.generateCacheKey                                        *)
(***************************************************************************)
Options(useGlobalFilters, filters) ==
    [useGlobalFilters |-> useGlobalFilters, filters |-> filters]

\* generateCacheKey without the global range in the key.
generateCacheKeyNoRange(gf, type, options) ==
    <<type,
      IF options.useGlobalFilters THEN "global" ELSE "custom",
      JSONstringify(options.filters),
      JSONstringify(<<>>)>>

\* generateCacheKey without the global/custom part of the key.
generateCacheKeyNoMode(gf, type, options) ==
    <<type,
      "custom",
      JSONstringify(options.filters),
      JSONstringify(<< <<"start", gf.start>>, <<"end", gf.end>> >>)>>

generateCacheKey(gf, type, options) ==
    <<type,
      IF options.useGlobalFilters THEN "global" ELSE "custom",
      JSONstringify(options.filters),
      JSONstringify(<< <<"start", gf.start>>, <<"end", gf.end>> >>)>>

(***************************************************************************)
(* ReportDashboard.fetchReport, staticfiles/ (caching) variant             *)
(***************************************************************************)
\* mergeFilters that applies the global range whatever supportsRange says.
mergeFiltersAnyRange(gf, type, options) ==
    LET config == REPORT_CONFIG[type]
        f1 == IF options.useGlobalFilters /\ Truthy(gf.start)
              THEN ObjSet(config.defaultFilters,
                          OrElse(ObjGet(config.paramMap, "start"), "start"), gf.start)
              ELSE config.defaultFilters
        f2 == IF options.useGlobalFilters /\ Truthy(gf.end)
              THEN ObjSet(f1, OrElse(ObjGet(config.paramMap, "end"), "end"), gf.end)
              ELSE f1
    IN  ObjAssign(f2, options.filters)

\* The merged filters object: defaultFilters, then the global range, then
\* options.filters.
mergeFilters(gf, type, options) ==
    LET config == REPORT_CONFIG[type]
        f0 == config.defaultFilters
        f1 == IF options.useGlobalFilters /\ config.supportsRange /\ Truthy(gf.start)
              THEN ObjSet(f0, OrElse(ObjGet(config.paramMap, "start"), "start"), gf.start)
              ELSE f0
        f2 == IF options.useGlobalFilters /\ config.supportsRange /\ Truthy(gf.end)
              THEN ObjSet(f1, OrElse(ObjGet(config.paramMap, "end"), "end"), gf.end)
              ELSE f1
    IN  ObjAssign(f2, options.filters)

\* appendParams without the test on the value.
appendParamsUnfiltered(type, filters) == filters

\* Object.entries(filters).forEach: params.append(key, value) for a truthy value.
appendParams(type, filters) == SelectSeq(filters, LAMBDA e : Truthy(e[2]))

\* `${config.endpoint}?${params.toString()}`
requestUrl(type, params) ==
    [endpoint |-> REPORT_CONFIG[type].endpoint, mark |-> TRUE, params |-> params]

buildUrl(gf, type, options) ==
    requestUrl(type, appendParams(type, mergeFilters(gf, type, options)))

(***************************************************************************)
(* ReportDashboard.fetchReport, static/ (eager) variant: the URL it asks.  *)
(***************************************************************************)
mergeFiltersEager(gf, type, options) ==
    LET config == REPORT_CONFIG[type]
        f0 == config.defaultFilters
        f1 == IF options.useGlobalFilters /\ config.supportsRange /\ Truthy(gf.start)
              THEN ObjSet(f0, "start", gf.start) ELSE f0
        f2 == IF options.useGlobalFilters /\ config.supportsRange /\ Truthy(gf.end)
              THEN ObjSet(f1, "end", gf.end) ELSE f1
    IN  ObjAssign(f2, options.filters)

\* const paramName = map[key] || key
paramName(type, key) == OrElse(ObjGet(REPORT_CONFIG[type].paramMap, key), key)

\* Object.entries(filters).forEach: params.set(paramName, value) unless the
\* value is null, undefined or "".
RECURSIVE setParams(_, _, _)
setParams(type, filters, params) ==
    IF filters = <<>> THEN params
    ELSE LET key == filters[1][1]
             value == filters[1][2]
         IN  setParams(type, Tail(filters),
                       IF value = Null \/ value = Undefined \/ value = ""
                       THEN params
                       ELSE ObjSet(params, paramName(type, key), value))

\* params.toString() ? `${config.endpoint}?${params.toString()}` : config.endpoint
buildUrlEager(gf, type, options) ==
    LET params == setParams(type, mergeFiltersEager(gf, type, options), <<>>)
    IN  [endpoint |-> REPORT_CONFIG[type].endpoint, mark |-> params # <<>>,
         params |-> params]

\* A fetch() in flight and the promise fetchReport built on it.  phase:
\* "pending" (no response yet, abort timer armed), "body" (an OK response
\* arrived, response.json() is reading it), "settled".
NewRequest(gf, type, options) ==
    [type |-> type, options |-> options, issuedUnder |-> gf,
     key |-> generateCacheKey(gf, type, options),
     url |-> buildUrl(gf, type, options),
     phase |-> "pending", timer |-> "armed",
     outcome |-> Unsettled, waiters |-> <<>>]

\* fetchUnknown that registers the rejected promise as in flight.
fetchUnknownRegistered(s, type) ==
    [state |-> [s EXCEPT !.loadingPromises = MapSet(@, <<type, "custom", <<>>, <<>>>>, 0)],
     promise |-> SettledPromise(Rejected("Error", "Reporte no configurado"))]

\* return Promise.reject(new Error(`Reporte no configurado: ${type}`))
fetchUnknown(s, type) ==
    [state |-> s, promise |-> SettledPromise(Rejected("Error", "Reporte no configurado"))]

fetchReport(s, type, options) ==
    IF ~HasConfig(type) THEN fetchUnknown(s, type)
    ELSE
    LET cacheKey == generateCacheKey(s.globalFilters, type, options) IN
    IF cacheKey \in DOMAIN s.cache
    THEN [state |-> s, promise |-> SettledPromise(Resolved(s.cache[cacheKey]))]
    ELSE IF cacheKey \in DOMAIN s.loadingPromises
    THEN [state |-> s, promise |-> PendingPromise(s.loadingPromises[cacheKey])]
    ELSE LET id == Len(s.requests) + 1 IN
         [state |-> [s EXCEPT
                        !.requests = Append(@, NewRequest(s.globalFilters, type, options)),
                        !.loadingPromises = MapSet(@, cacheKey, id)],
          promise |-> PendingPromise(id)]

(***************************************************************************)
(* Cards                                                                   *)
(***************************************************************************)
CardErrorMessage == "No fue posible obtener el resumen del reporte."
RunErrorMessage == "Ocurrio un error al generar el reporte."
RangeAppliedMessage == "Rango aplicado correctamente."

\* ReportDashboard.showToast: window.showToast(message, type), or the console
showToast(s, message, type) == [s EXCEPT !.toasts = Append(@, <<message, type>>)]

\* config.cardValue(data): the headline field, "—" when it is missing.
cardValue(type, data) == Coalesce(data.display, EmDash)

updateCardValue(s, card, value) ==
    [s EXCEPT !.cardState[card].value = Coalesce(value, EmDash)]

setCardLoading(s, card, isLoading) ==
    [s EXCEPT !.cardState[card].loading = isLoading,
              !.cardState[card].value = IF isLoading THEN Ellipsis ELSE @]

(***************************************************************************)
(* The reactions callers chain on the promise fetchReport returns.         *)
(***************************************************************************)
Waiter(kind, target, key) == [kind |-> kind, target |-> target, key |-> key]

\* cardCatch that shows no toast.
cardCatchSilent(s, card) == updateCardValue(s, card, EmDash)

\* loadCardData, new request: .catch((error) => { console.error; "—"; toast })
cardCatch(s, card) == showToast(updateCardValue(s, card, EmDash), CardErrorMessage, "error")

\* loadCardData, new request: .then / .catch / .finally
cardSettled(s, w, outcome) ==
    LET type == s.cardState[w.target].type
        s1 == IF outcome.state = "resolved"
              THEN updateCardValue([s EXCEPT !.cache = MapSet(@, w.key, outcome.data)],
                                   w.target, cardValue(type, outcome.data))
              ELSE cardCatch(s, w.target)
    IN  setCardLoading([s1 EXCEPT !.loadingPromises = MapDelete(@, w.key)],
                       w.target, FALSE)

\* loadCardData, request already in flight: .then / .catch
cardWaiterSettled(s, w, outcome) ==
    IF outcome.state = "resolved"
    THEN updateCardValue(s, w.target, cardValue(s.cardState[w.target].type, outcome.data))
    ELSE updateCardValue(s, w.target, EmDash)

\* a direct caller of fetchReport records what its promise settled with
callerSettled(s, w, outcome) ==
    [s EXCEPT !.harness.results[w.target].outcome = outcome]

\* ReportModal.setLoading: element.dataset.loading
setLoading(s, m, isLoading) == [s EXCEPT !.modalState[m].loading = isLoading]

\* ReportModal.render: the summary fields and the table body show the payload.
render(s, m, data) ==
    [s EXCEPT !.modalState[m].content =
        [summary |-> Coalesce(data.display, EmDash), rows |-> data.rows]]

\* runThen that leaves loadedOnce as it was.
runThenNotLoaded(s, m, data) == render(s, m, data)

\* runReport: .then((data) => { this.render(data); this.loadedOnce = true; })
runThen(s, m, data) == [render(s, m, data) EXCEPT !.modalState[m].loadedOnce = TRUE]

\* runFinally that leaves the loading flag.
runFinallyKeep(s, m) == s

\* runReport: .finally(() => this.setLoading(false))
runFinally(s, m) == setLoading(s, m, FALSE)

\* runCatch that shows no toast.
runCatchSilent(s, m) == s

\* runReport: .catch((error) => { console.error(error); this.dashboard.showToast(...) })
runCatch(s, m) == showToast(s, RunErrorMessage, "error")

\* runReport: the reactions on the promise of its fetchReport.  History:
\* `resolved` records that a run of the modal has resolved.
modalSettled(s, w, outcome) ==
    LET s1 == IF outcome.state = "resolved"
              THEN runThen([s EXCEPT !.modalState[w.target].resolved = TRUE],
                           w.target, outcome.data)
              ELSE runCatch(s, w.target)
    IN  runFinally(s1, w.target)

deliver(s, w, outcome) ==
    CASE w.kind = "card" -> cardSettled(s, w, outcome)
      [] w.kind = "cardWaiter" -> cardWaiterSettled(s, w, outcome)
      [] w.kind = "caller" -> callerSettled(s, w, outcome)
      [] w.kind = "modal" -> modalSettled(s, w, outcome)

RECURSIVE deliverAll(_, _, _)
deliverAll(s, ws, outcome) ==
    IF ws = <<>> THEN s
    ELSE deliverAll(deliver(s, Head(ws), outcome), Tail(ws), outcome)

\* promise.then(...): a reaction on a settled promise runs at once (microtask),
\* one on a pending promise waits for it.
attach(s, promise, w) ==
    IF promise.id = 0 THEN deliver(s, w, promise.outcome)
    ELSE IF s.requests[promise.id].phase = "settled"
    THEN deliver(s, w, s.requests[promise.id].outcome)
    ELSE [s EXCEPT !.requests[promise.id].waiters = Append(@, w)]

(***************************************************************************)
(* ReportDashboard.loadCardData / refreshCards / clearCache                *)
(***************************************************************************)
\* loadCardData without the test on the configuration.
loadCardDataUnchecked(s, card, type) ==
    LET cacheKey == generateCacheKey(s.globalFilters, type, Options(TRUE, <<>>))
        r == fetchReport(setCardLoading(s, card, TRUE), type, Options(TRUE, <<>>))
        s1 == [r.state EXCEPT !.loadingPromises = MapSet(@, cacheKey, r.promise.id)]
    IN  attach(s1, r.promise, Waiter("card", card, cacheKey))

loadCardData(s, card, type) ==
    IF ~HasConfig(type) THEN s
    ELSE
    LET cacheKey == generateCacheKey(s.globalFilters, type, Options(TRUE, <<>>)) IN
    IF cacheKey \in DOMAIN s.cache
    THEN updateCardValue(s, card, cardValue(type, s.cache[cacheKey]))
    ELSE IF cacheKey \in DOMAIN s.loadingPromises
    THEN attach(s, PendingPromise(s.loadingPromises[cacheKey]),
                Waiter("cardWaiter", card, cacheKey))
    ELSE LET r == fetchReport(setCardLoading(s, card, TRUE), type, Options(TRUE, <<>>))
             s1 == [r.state EXCEPT !.loadingPromises = MapSet(@, cacheKey, r.promise.id)]
         IN  attach(s1, r.promise, Waiter("card", card, cacheKey))

RECURSIVE loadCards(_, _)
loadCards(s, types) ==
    IF types = <<>> THEN s
    ELSE loadCards(loadCardData(s, cardsGet(s.cardState, Head(types)), Head(types)),
                   Tail(types))

refreshCards(s) == loadCards(s, cardsOrder(s.cardState, 1, {}))

\* clearCache that leaves the loaded markers of the cards.
clearCacheKeepLoaded(s) ==
    [s EXCEPT !.cache = EmptyMap, !.loadingPromises = EmptyMap, !.stored = EmptyMap]

clearCache(s) ==
    [s EXCEPT !.cache = EmptyMap,
              !.loadingPromises = EmptyMap,
              !.stored = EmptyMap,
              !.cardState = [i \in DOMAIN @ |->
                                [@[i] EXCEPT !.loaded = FALSE, !.lazyLoads = 0]]]

(***************************************************************************)
(* ReportModal and the dashboard's modal registry                          *)
(***************************************************************************)
\* this.activeModal = null
NoModal == 0

ModalIds == DOMAIN modalState

\* initModals: this.modals maps a configured type to the last modal element of
\* that type; this.modals.get(type), NoModal when there is none.
modalsGet(modals, type) ==
    IF HasConfig(type) /\ \E m \in DOMAIN modals : modals[m].type = type
    THEN CHOOSE m \in DOMAIN modals :
            /\ modals[m].type = type
            /\ \A n \in DOMAIN modals : modals[n].type = type => n <= m
    ELSE NoModal

setActiveModal(s, modal) == [s EXCEPT !.activeModal = modal]

\* collectFilters: data[key] = node.value ?? "" for every filter node
collectFilters(s, m) ==
    [i \in DOMAIN s.modalState[m].inputs |->
        <<s.modalState[m].inputs[i][1], Coalesce(s.modalState[m].inputs[i][2], "")>>]

\* syncWithGlobalFilters that does not look at the value of the input.
syncWithGlobalFiltersOverwrite(s, m) ==
    IF ~REPORT_CONFIG[s.modalState[m].type].supportsRange THEN s
    ELSE [s EXCEPT !.modalState[m].inputs =
            [i \in DOMAIN @ |->
                IF @[i][1] = "start" /\ Truthy(s.globalFilters.start)
                THEN <<"start", s.globalFilters.start>>
                ELSE IF @[i][1] = "end" /\ Truthy(s.globalFilters.end)
                THEN <<"end", s.globalFilters.end>>
                ELSE @[i]]]

\* syncWithGlobalFilters: an empty start / end input takes the global value
syncWithGlobalFilters(s, m) ==
    IF ~REPORT_CONFIG[s.modalState[m].type].supportsRange THEN s
    ELSE [s EXCEPT !.modalState[m].inputs =
            [i \in DOMAIN @ |->
                IF @[i][1] = "start" /\ Truthy(s.globalFilters.start) /\ ~Truthy(@[i][2])
                THEN <<"start", s.globalFilters.start>>
                ELSE IF @[i][1] = "end" /\ Truthy(s.globalFilters.end) /\ ~Truthy(@[i][2])
                THEN <<"end", s.globalFilters.end>>
                ELSE @[i]]]

\* runReport that asks for the global range to be merged.
runReportGlobal(s, m) ==
    LET filters == collectFilters(s, m)
        s1 == [setLoading(s, m, TRUE) EXCEPT !.modalState[m].lastFilters = filters]
        r == fetchReport(s1, s.modalState[m].type, Options(TRUE, filters))
    IN  attach(r.state, r.promise, Waiter("modal", m, <<>>))

\* ReportModal.runReport: fetchReport(this.type, { filters })
runReport(s, m) ==
    LET filters == collectFilters(s, m)
        s1 == [setLoading(s, m, TRUE) EXCEPT !.modalState[m].lastFilters = filters]
        r == fetchReport(s1, s.modalState[m].type, Options(FALSE, filters))
    IN  attach(r.state, r.promise, Waiter("modal", m, <<>>))

\* open without the test on isOpen.
openAlways(s, m, focused) ==
    LET s1 == [s EXCEPT !.modalState[m].previousActive = focused,
                        !.modalState[m].isOpen = TRUE]
        s2 == syncWithGlobalFilters(setActiveModal(s1, m), m)
    IN  IF ~s2.modalState[m].loadedOnce THEN runReport(s2, m) ELSE s2

\* ReportModal.open, document.activeElement being `focused`.
open(s, m, focused) ==
    IF s.modalState[m].isOpen THEN s
    ELSE
    LET s1 == [s EXCEPT !.modalState[m].previousActive = focused,
                        !.modalState[m].isOpen = TRUE]
        s2 == syncWithGlobalFilters(setActiveModal(s1, m), m)
    IN  IF ~s2.modalState[m].loadedOnce THEN runReport(s2, m) ELSE s2

\* close without the test on isOpen.
closeAlways(s, m) == setActiveModal([s EXCEPT !.modalState[m].isOpen = FALSE], NoModal)

\* close that clears the active reference only when it points to this modal.
closeIfActive(s, m) ==
    IF ~s.modalState[m].isOpen THEN s
    ELSE [s EXCEPT !.modalState[m].isOpen = FALSE,
                   !.activeModal = IF @ = m THEN NoModal ELSE @]

\* close that leaves the active reference as it is.
closeKeepActive(s, m) ==
    IF ~s.modalState[m].isOpen THEN s
    ELSE [s EXCEPT !.modalState[m].isOpen = FALSE]

\* close that detaches the runs of the modal from their requests.
closeDetaching(s, m) ==
    IF ~s.modalState[m].isOpen THEN s
    ELSE setActiveModal(
            [s EXCEPT !.modalState[m].isOpen = FALSE,
                      !.modalState[m].loading = FALSE,
                      !.requests = [id \in DOMAIN @ |->
                          [@[id] EXCEPT !.waiters =
                              SelectSeq(@, LAMBDA w : ~(w.kind = "modal" /\ w.target = m))]]],
            NoModal)

\* ReportModal.close; previousActive.focus() changes nothing the model holds.
close(s, m) ==
    IF ~s.modalState[m].isOpen THEN s
    ELSE setActiveModal([s EXCEPT !.modalState[m].isOpen = FALSE], NoModal)

\* ReportDashboard.openModal
openModal(s, type, focused) ==
    LET modal == modalsGet(s.modalState, type) IN
    IF modal = NoModal THEN s ELSE open(s, modal, focused)

\* escapeKey that closes every open modal.
escapeKeyAll(s) ==
    [s EXCEPT !.activeModal = NoModal,
              !.modalState = [m \in DOMAIN @ |-> [@[m] EXCEPT !.isOpen = FALSE]]]

\* bindEscapeListener: keydown with event.key === "Escape"
escapeKey(s) == IF s.activeModal # NoModal THEN close(s, s.activeModal) ELSE s

(***************************************************************************)
(* The promise chain of fetchReport on its fetch()                         *)
(***************************************************************************)
\* fetchThenData that does not store the payload.
fetchThenDataNoStore(s, cacheKey, data) == s

\* .then(data => { this.cache.set(cacheKey, data); return data; })
fetchThenData(s, cacheKey, data) == [s EXCEPT !.cache = MapSet(@, cacheKey, data)]

\* fetchCatch that rethrows every error as it came.
fetchCatchRethrow(error) == error

\* .catch(error => ...): an AbortError becomes the timeout error
fetchCatch(error) ==
    IF error.name = "AbortError" THEN Rejected("Error", TimeoutMessage) ELSE error

\* fetchFinally that leaves the in-flight entry.
fetchFinallyKeep(s, cacheKey) == s

\* .finally(() => this.loadingPromises.delete(cacheKey))
fetchFinally(s, cacheKey) == [s EXCEPT !.loadingPromises = MapDelete(@, cacheKey)]

\* Of a settled request the model keeps what its promise holds: the payload
\* it resolved with, or that it rejected.
Forget(req) ==
    [req EXCEPT !.type = "", !.options = Options(FALSE, <<>>),
                !.issuedUnder = [start |-> "", end |-> ""],
                !.key = <<>>, !.url = [endpoint |-> "", mark |-> FALSE, params |-> <<>>],
                !.timer = "",
                !.outcome = IF @.state = "resolved" THEN @ ELSE Rejected("", "")]

\* The fetch of request id ends with `raw`: the chain runs, the promise
\* settles and the reactions chained on it run, all before the next event.
\* Every chain of reactions of the page ends in a .catch or follows one, so
\* a rejection is unhandled only when nothing is chained on the promise.
\* History: lastSettled keeps what the reactions put out.
settle(s, id, raw, timer) ==
    LET req == s.requests[id]
        outcome == IF raw.state = "resolved" THEN raw ELSE fetchCatch(raw)
        s1 == IF raw.state = "resolved" THEN fetchThenData(s, req.key, raw.data) ELSE s
        s2 == fetchFinally(s1, req.key)
        done == [req EXCEPT !.phase = "settled", !.timer = timer,
                            !.outcome = outcome, !.waiters = <<>>]
        s3 == [s2 EXCEPT !.requests[id] = Forget(done),
                         !.stored = IF raw.state = "resolved"
                                    THEN MapSet(@, req.key, raw.data) ELSE @,
                         !.unhandled = IF outcome.state = "rejected" /\ req.waiters = <<>>
                                       THEN @ + 1 ELSE @]
        s4 == deliverAll(s3, req.waiters, outcome)
    IN  [s4 EXCEPT !.lastSettled = [phase |-> "settled", key |-> req.key,
                                    timer |-> timer, outcome |-> outcome,
                                    toasts |-> s4.toasts, unhandled |-> s4.unhandled]]

(***************************************************************************)
(* Initial state: after new ReportDashboard(REPORT_CONFIG).init()          *)
(***************************************************************************)
NoRequest ==
    [phase |-> "none", key |-> <<>>, timer |-> "", outcome |-> Unsettled,
     toasts |-> <<>>, unhandled |-> 0]

NoHarness == [calls |-> <<>>, results |-> <<>>]

InitDashboard ==
    /\ activeModal = NoModal
    /\ cache = EmptyMap
    /\ loadingPromises = EmptyMap
    /\ requests = <<>>
    /\ lastSettled = NoRequest
    /\ stored = EmptyMap

\* cacheElements / initIntersectionObserver: every card starts observed, not
\* loaded, showing the text of the markup.
InitCards(types) ==
    [i \in DOMAIN types |->
        [type |-> types[i], loaded |-> FALSE, observed |-> TRUE,
         loading |-> FALSE, value |-> "", lazyLoads |-> 0]]

\* The page of specification Spec: three summary cards, two of one type.
CardsPage == <<"total-sales", "inventory-cost", "inventory-cost">>

Init ==
    /\ globalFilters = [start |-> "", end |-> ""]
    /\ InitDashboard
    /\ cardState = InitCards(CardsPage)
    /\ harness = NoHarness
    /\ modalState = <<>>

(***************************************************************************)
(* Events of the page                                                      *)
(***************************************************************************)
\* The cards of a set in document order.
RECURSIVE InOrder(_)
InOrder(cards) ==
    IF cards = {} THEN <<>>
    ELSE LET first == CHOOSE c \in cards : \A d \in cards : c <= d
         IN  <<first>> \o InOrder(cards \ {first})

\* intersectEntry that neither marks the card loaded nor unobserves it.
intersectEntryUnmarked(s, card) ==
    LET type == s.cardState[card].type IN
    IF Truthy(type) /\ ~s.cardState[card].loaded
    THEN [loadCardData(s, card, type) EXCEPT !.cardState[card].lazyLoads = @ + 1]
    ELSE s

\* The IntersectionObserver callback on one entry that isIntersecting.
intersectEntry(s, card) ==
    LET type == s.cardState[card].type IN
    IF Truthy(type) /\ ~s.cardState[card].loaded
    THEN [loadCardData(s, card, type) EXCEPT
             !.cardState[card].loaded = TRUE,
             !.cardState[card].observed = FALSE,
             !.cardState[card].lazyLoads = @ + 1]
    ELSE s

\* entries.forEach(entry => ...)
RECURSIVE intersectEntries(_, _)
intersectEntries(s, entries) ==
    IF entries = <<>> THEN s
    ELSE intersectEntries(intersectEntry(s, Head(entries)), Tail(entries))

\* The IntersectionObserver callback: the observed cards of `cards` came into
\* view together and are delivered as the entries of one call.
Intersect(cards) ==
    /\ cards # {}
    /\ \A card \in cards : cardState[card].observed
    /\ LET s1 == intersectEntries(Dash, InOrder(cards))
       IN  /\ Len(s1.requests) <= MaxRequests
           /\ Becomes(s1)

\* applyRange that reloads the cards without clearing the cache.
applyRangeNoClear(s, startValue, endValue) ==
    LET s1 == [s EXCEPT !.globalFilters =
                  [start |-> OrElse(startValue, ""), end |-> OrElse(endValue, "")]]
    IN  showToast(refreshCards(s1), RangeAppliedMessage, "success")

\* The click handler of the range apply button, the inputs holding startValue
\* and endValue.
applyRange(s, startValue, endValue) ==
    LET s1 == [s EXCEPT !.globalFilters =
                  [start |-> OrElse(startValue, ""), end |-> OrElse(endValue, "")]]
    IN  showToast(refreshCards(clearCache(s1)), RangeAppliedMessage, "success")

\* Click on the range apply button.
RangeApply(startValue, endValue) ==
    LET s2 == applyRange(Dash, startValue, endValue)
    IN  /\ Len(s2.requests) <= MaxRequests
        /\ Becomes(s2)

(***************************************************************************)
(* Events of the network                                                   *)
(***************************************************************************)
HttpMessage(status) == IF status = 500 THEN "HTTP 500: Internal Server Error" ELSE "HTTP error"

\* fetch() resolves with a response: .then(response => ...)
ResponseArrives(id, status) ==
    /\ requests[id].phase = "pending"
    /\ IF ResponseOk(status)
       THEN Becomes([Dash EXCEPT !.requests[id].phase = "body",
                                 !.requests[id].timer = "cleared"])
       ELSE Becomes(settle(Dash, id, Rejected("Error", HttpMessage(status)), "cleared"))

\* response.json() resolves with the parsed body
BodyParsed(id, data) ==
    /\ requests[id].phase = "body"
    /\ Becomes(settle(Dash, id, Resolved(data), "cleared"))

\* response.json() rejects: the body is not JSON
BodyFails(id) ==
    /\ requests[id].phase = "body"
    /\ Becomes(settle(Dash, id, Rejected("SyntaxError", "Unexpected token"), "cleared"))

\* fetch() rejects: the network failed
NetworkError(id) ==
    /\ requests[id].phase = "pending"
    /\ Becomes(settle(Dash, id, Rejected("TypeError", "Failed to fetch"), "cleared"))

\* The 30 s timer fires: controller.abort(), and fetch() rejects with an AbortError
TimeoutFires(id) ==
    /\ requests[id].timer = "armed"
    /\ Becomes(settle(Dash, id, Rejected("AbortError", "The operation was aborted"), "fired"))

Network ==
    \/ \E id \in DOMAIN requests, status \in Statuses : ResponseArrives(id, status)
    \/ \E id \in DOMAIN requests, data \in Payloads : BodyParsed(id, data)
    \/ \E id \in DOMAIN requests : BodyFails(id)
    \/ \E id \in DOMAIN requests : NetworkError(id)
    \/ \E id \in DOMAIN requests : TimeoutFires(id)

Next ==
    \/ \E cards \in SUBSET CardIds : Intersect(cards)
    \/ \E range \in RangeInputs : RangeApply(range[1], range[2])
    \/ Network

Spec == Init /\ [][Next]_vars

(***************************************************************************)
(* fetchReport under arbitrary callers: a page without cards on which two  *)
(* calls fetchReport(type, options) are made, the second at any time after *)
(* the first, while the network answers and the range is applied.          *)
(***************************************************************************)
Reverse(seq) == [i \in DOMAIN seq |-> seq[Len(seq) + 1 - i]]

HarnessTypes ==
    {"total-sales", "product-sales", "inventory-cost", "cash-status", "no-such-report"}

StartValues == {"", "2024-02-01"}
SearchValues == {"x", Null, Undefined}

\* The filter objects passed: over the keys start and search, in both orders.
FilterObjects ==
    {<<>>}
    \cup {<< <<"start", v>> >> : v \in StartValues}
    \cup {<< <<"search", v>> >> : v \in SearchValues}
    \cup {<< <<"start", v>>, <<"search", w>> >> : v \in StartValues, w \in SearchValues}
    \cup {<< <<"search", w>>, <<"start", v>> >> : v \in StartValues, w \in SearchValues}

Call(type, options) == [type |-> type, options |-> options]

\* The second call repeats the first, passes the same filters in the other
\* insertion order, passes none, or names a type that is not configured.
HarnessCalls ==
    {<<Call(type, Options(g, f)), Call(type2, Options(g, f2))>> :
        type \in HarnessTypes, type2 \in HarnessTypes, g \in BOOLEAN,
        f \in FilterObjects, f2 \in FilterObjects}

CallPairs ==
    {pair \in HarnessCalls :
        /\ pair[2].type \in {pair[1].type, "no-such-report"}
        /\ pair[2].options.filters \in
              {pair[1].options.filters, Reverse(pair[1].options.filters), <<>>}}

\* What is recorded of a call: how fetchReport answered ("rejected", "cached",
\* "joined" a pending promise, or "issued" a fetch), its cache key, the outcome
\* its promise settled with and, as history of the moment of the call, whether
\* a request for the key was outstanding and what a successful request for
\* the key had stored.
NoResult ==
    [kind |-> "none", id |-> 0, key |-> <<>>, outcome |-> Unsettled,
     overlaps |-> FALSE, afterSuccess |-> FALSE, expected |-> NoData]

InitFetch ==
    /\ \E range \in RangeInputs : globalFilters = [start |-> range[1], end |-> range[2]]
    /\ InitDashboard
    /\ cardState = <<>>
    /\ modalState = <<>>
    /\ \E pair \in CallPairs :
          harness = [calls |-> pair, results |-> <<NoResult, NoResult>>]

\* The i-th call: fetchReport(type, options).then(...).catch(...)
CallFetch(i) ==
    /\ harness.results[i].kind = "none"
    /\ i > 1 => harness.results[i - 1].kind # "none"
    /\ LET c == harness.calls[i]
           r == fetchReport(Dash, c.type, c.options)
           kind == IF r.promise.id = 0
                   THEN IF r.promise.outcome.state = "rejected" THEN "rejected" ELSE "cached"
                   ELSE IF Len(r.state.requests) > Len(requests) THEN "issued" ELSE "joined"
           key == generateCacheKey(globalFilters, c.type, c.options)
           s1 == [r.state EXCEPT !.harness.results[i] =
                     [kind |-> kind, id |-> r.promise.id, key |-> key,
                      outcome |-> Unsettled,
                      overlaps |-> \E id \in DOMAIN requests :
                                      /\ requests[id].phase # "settled"
                                      /\ requests[id].key = key,
                      afterSuccess |-> key \in DOMAIN stored,
                      expected |-> IF key \in DOMAIN stored THEN stored[key] ELSE NoData]]
       IN  Becomes(attach(s1, r.promise, Waiter("caller", i, <<>>)))

NextFetch ==
    \/ \E i \in DOMAIN harness.calls : CallFetch(i)
    \/ \E range \in RangeInputs : RangeApply(range[1], range[2])
    \/ Network

SpecFetch == InitFetch /\ [][NextFetch]_vars

(***************************************************************************)
(* The modals: pages without cards that hold report modals, which are      *)
(* opened, closed, run and typed into while the network answers and the    *)
(* range is applied.                                                       *)
(***************************************************************************)
\* new ReportModal(element, type, dashboard): closed, nothing loaded, the
\* filter inputs empty.
NewModal(type, filterKeys) ==
    [type |-> type, isOpen |-> FALSE, loadedOnce |-> FALSE, loading |-> FALSE,
     previousActive |-> Undefined,
     inputs |-> [i \in DOMAIN filterKeys |-> <<filterKeys[i], "">>],
     lastFilters |-> <<>>,
     content |-> [summary |-> "", rows |-> 0],
     resolved |-> FALSE]

\* The modal elements of the page of SpecModal: two modals without filter
\* inputs, and no range picker.
ModalsPage == <<NewModal("total-sales", <<>>), NewModal("inventory-cost", <<>>)>>

\* The modal element of the page of SpecRun and its data-filter inputs.
RunPage == <<NewModal("total-sales", <<"start">>)>>

\* The types openModal is called with, one of them not configured.
TriggerTypes == {"total-sales", "inventory-cost", "no-such-report"}

\* The element that has the focus when a modal opens.
Elements == {"body", "trigger"}

\* What the user types into a filter input.
InputValues == {"", "2024-02-01"}

InitModal ==
    /\ globalFilters = [start |-> "", end |-> ""]
    /\ InitDashboard
    /\ cardState = <<>>
    /\ harness = NoHarness
    /\ modalState = ModalsPage

\* The bounds on the requests and on the runs waiting on each.
WithinRuns(s) ==
    /\ Len(s.requests) <= MaxRuns
    /\ \A id \in DOMAIN s.requests : Len(s.requests[id].waiters) <= MaxWaiters

\* Click on a card of the type (or any other call of openModal).
OpenModal(type, focused) ==
    LET s1 == openModal(Dash, type, focused)
    IN  /\ WithinRuns(s1)
        /\ Becomes(s1)

\* Click on a close button or on the backdrop of modal m.
CloseClick(m) ==
    LET s1 == close(Dash, m)
    IN  Becomes(s1)

\* keydown of Escape
EscapeKey ==
    LET s1 == escapeKey(Dash)
    IN  Becomes(s1)

\* Click on the run button of modal m.
RunClick(m) ==
    LET s1 == runReport(Dash, m)
    IN  /\ WithinRuns(s1)
        /\ Becomes(s1)

\* The user sets the i-th filter input of modal m.
TypeInput(m, i, value) ==
    /\ modalState[m].inputs[i][2] # value
    /\ Becomes([Dash EXCEPT !.modalState[m].inputs[i][2] = value])

NextModal ==
    \/ \E type \in TriggerTypes, focused \in Elements : OpenModal(type, focused)
    \/ \E m \in ModalIds : CloseClick(m)
    \/ EscapeKey
    \/ \E m \in ModalIds : RunClick(m)
    \/ Network

SpecModal == InitModal /\ [][NextModal]_vars

InitRun ==
    /\ globalFilters = [start |-> "", end |-> ""]
    /\ InitDashboard
    /\ cardState = <<>>
    /\ harness = NoHarness
    /\ modalState = RunPage

NextRun ==
    \/ \E type \in TriggerTypes, focused \in Elements : OpenModal(type, focused)
    \/ \E m \in ModalIds : CloseClick(m)
    \/ EscapeKey
    \/ \E m \in ModalIds : RunClick(m)
    \/ \E m \in ModalIds, value \in InputValues :
          \E i \in DOMAIN modalState[m].inputs : TypeInput(m, i, value)
    \/ \E range \in RangeInputs : RangeApply(range[1], range[2])
    \/ Network

SpecRun == InitRun /\ [][NextRun]_vars

(***************************************************************************)
(* Markup that names a report type REPORT_CONFIG does not have: a page     *)
(* with a card and a modal element of a configured type and a card and a   *)
(* modal element of an unconfigured one.                                   *)
(***************************************************************************)
MarkupCards == <<"total-sales", "no-such-report">>

\* The second element gets no ReportModal: its record is the element as the
\* markup has it.
MarkupModals == <<NewModal("total-sales", <<>>), NewModal("no-such-report", <<>>)>>

InitMarkup ==
    /\ globalFilters = [start |-> "", end |-> ""]
    /\ InitDashboard
    /\ cardState = InitCards(MarkupCards)
    /\ harness = NoHarness
    /\ modalState = MarkupModals

\* initModals: the modal elements a ReportModal was constructed for, which
\* bound the close listeners.
constructedModals(modals) == {m \in DOMAIN modals : HasConfig(modals[m].type)}

\* initCards: the click listener of a card, bound for a configured type only.
cardClick(s, card, focused) ==
    IF ~HasConfig(s.cardState[card].type) THEN s
    ELSE openModal(s, s.cardState[card].type, focused)

\* Click on a card.
CardClick(card, focused) ==
    LET s1 == cardClick(Dash, card, focused)
    IN  /\ WithinRuns(s1)
        /\ Becomes(s1)

NextMarkup ==
    \/ \E cards \in SUBSET CardIds : Intersect(cards)
    \/ \E card \in CardIds, focused \in Elements : CardClick(card, focused)
    \/ \E type \in TriggerTypes, focused \in Elements : OpenModal(type, focused)
    \/ \E m \in constructedModals(modalState) : CloseClick(m)
    \/ EscapeKey
    \/ Network

SpecMarkup == InitMarkup /\ [][NextMarkup]_vars

(***************************************************************************)
(* ReportModal.renderTable: a modal whose table is rendered from payloads  *)
(* of any shape.  Here a payload is a JavaScript value with its structure. *)
(***************************************************************************)
\* Number of header cells of a table and of records in a payload.
MaxHeaderCells == 3
MaxRows == 2

\* A JavaScript value: its kind, and the text of a string, the items of an
\* array or the properties of an object.  A text is the sequence of its
\* pieces, a piece being one of & < > " ' or a run of other characters.
JsValue(kind, text, items, props) ==
    [kind |-> kind, text |-> text, items |-> items, props |-> props]
JsNull == JsValue("null", <<>>, <<>>, <<>>)
JsUndefined == JsValue("undefined", <<>>, <<>>, <<>>)
JsString(text) == JsValue("string", text, <<>>, <<>>)
JsArray(items) == JsValue("array", <<>>, items, <<>>)
JsObject(props) == JsValue("object", <<>>, <<>>, props)

\* Array.isArray(value)
isArray(value) == value.kind = "array"

\* data?.key, for the keys the extractors read
optionalProp(data, key) ==
    IF data.kind = "object" /\ ObjHas(data.props, key) THEN ObjGet(data.props, key)
    ELSE JsUndefined

\* The property of the payload the rowsExtractor of the type reads.
rowsProperty(type) ==
    CASE type = "cash-status" -> "sessions"
      [] type = "credit-installments" -> "creditos"
      [] OTHER -> "rows"

\* config.rowsExtractor: (data) => (Array.isArray(data?.rows) ? data.rows : [])
rowsExtractor(type, data) ==
    LET rows == optionalProp(data, rowsProperty(type))
    IN  IF isArray(rows) THEN rows.items ELSE <<>>

\* config.emptyMessage of the types rendered here
emptyMessage(type) ==
    CASE type = "total-sales" ->
            <<"No se encontraron ventas para los filtros seleccionados.">>
      [] type = "cash-status" ->
            <<"No se encontraron sesiones de caja para los filtros aplicados.">>

DefaultEmptyMessage == <<"Sin resultados disponibles.">>

\* escapeHtml on a text: the five special characters become entities.
HtmlEntities ==
    ("&" :> "&amp;") @@ ("<" :> "&lt;") @@ (">" :> "&gt;") @@ ("\"" :> "&quot;")
    @@ ("'" :> "&#39;")

escapeHtml(text) ==
    [i \in DOMAIN text |->
        IF text[i] \in DOMAIN HtmlEntities THEN HtmlEntities[text[i]] ELSE text[i]]

\* A <tr> of the table body: the markup config.renderRow makes of a record,
\* or the single cell of the empty state.
DataRow(row) == [class |-> "", colspan |-> 0, text |-> <<>>, of |-> row]
EmptyStateRow(columnCount, text) ==
    [class |-> "report-empty-state", colspan |-> columnCount, text |-> text,
     of |-> JsUndefined]

\* config.renderRow(row): the cells show the fields of the record
renderRow(type, row) == DataRow(row)

\* getTableColumnCount that takes the table for one column wide.
getTableColumnCountOne(s, m) == 1

\* ReportModal.getTableColumnCount
getTableColumnCount(s, m) ==
    IF ~s.modalState[m].table.inTable THEN 1
    ELSE IF s.modalState[m].table.headerCells = 0 THEN 1
    ELSE s.modalState[m].table.headerCells

\* ReportModal.renderTable
renderTable(s, m, data) ==
    IF ~s.modalState[m].table.hasBody THEN s
    ELSE
    LET type == s.modalState[m].type
        rows == rowsExtractor(type, data)
    IN  IF Len(rows) > 0
        THEN [s EXCEPT !.modalState[m].tableBody =
                           [i \in DOMAIN rows |-> renderRow(type, rows[i])],
                       !.modalState[m].emptyHidden = TRUE]
        ELSE [s EXCEPT !.modalState[m].tableBody =
                           <<EmptyStateRow(getTableColumnCount(s, m),
                                           escapeHtml(IF emptyMessage(type) # <<>>
                                                      THEN emptyMessage(type)
                                                      ELSE DefaultEmptyMessage))>>,
                       !.modalState[m].emptyHidden = FALSE]

\* The markup of the table of a modal: whether there is a [data-table-body],
\* whether it is inside a <table>, and the number of <th> of its <thead>.
Tables ==
    {[hasBody |-> FALSE, inTable |-> FALSE, headerCells |-> 0],
     [hasBody |-> TRUE, inTable |-> FALSE, headerCells |-> 0]}
    \cup {[hasBody |-> TRUE, inTable |-> TRUE, headerCells |-> n] : n \in 0..MaxHeaderCells}

\* A modal with a table and no summary nodes.  History: rendered, the payload
\* render was last called with.
TableModal(type, table) ==
    [type |-> type, isOpen |-> FALSE, loadedOnce |-> FALSE, loading |-> FALSE,
     previousActive |-> Undefined, inputs |-> <<>>, lastFilters |-> <<>>,
     content |-> [summary |-> "", rows |-> 0], resolved |-> FALSE,
     table |-> table, tableBody |-> <<>>, emptyHidden |-> TRUE,
     rendered |-> [done |-> FALSE, data |-> JsUndefined]]

RenderTypes == {"total-sales", "cash-status"}

\* The records of the payloads and the arrays of at most MaxRows of them.
Records ==
    {JsObject(<< <<"factura", JsString(<<"F-1">>)>> >>),
     JsObject(<< <<"factura", JsString(<<"F-2">>)>> >>)}

RecordArrays == UNION {[1..n -> Records] : n \in 0..MaxRows}

\* What the .then of runReport may be handed: values that are no container,
\* a bare array, and objects whose rows property is missing, no array, or
\* an array of records.
RenderPayloads ==
    {JsNull, JsUndefined, JsString(<<"error">>), JsObject(<<>>)}
    \cup {JsArray(items) : items \in RecordArrays}
    \cup {JsObject(<< <<key, value>> >>) :
            key \in {"rows", "sessions"},
            value \in {JsNull, JsString(<<"F-1">>), JsObject(<<>>)}
                      \cup {JsArray(items) : items \in RecordArrays}}

InitRender ==
    /\ globalFilters = [start |-> "", end |-> ""]
    /\ InitDashboard
    /\ cardState = <<>>
    /\ harness = NoHarness
    /\ \E type \in RenderTypes, table \in Tables :
          modalState = <<TableModal(type, table)>>

\* ReportModal.render(data): renderSummary returns at once on a modal without
\* summary nodes, renderTable writes the table body.
RenderData(m, data) ==
    LET s1 == renderTable(Dash, m, data)
    IN  Becomes([s1 EXCEPT !.modalState[m].rendered = [done |-> TRUE, data |-> data]])

NextRender == \E m \in ModalIds, data \in RenderPayloads : RenderData(m, data)

SpecRender == InitRender /\ [][NextRender]_vars

(***************************************************************************)
(* Properties                                                              *)
(***************************************************************************)
Outstanding == {id \in DOMAIN requests : requests[id].phase # "settled"}

Called == {i \in DOMAIN harness.results : harness.results[i].kind # "none"}

PropsOf(filters) == {filters[i] : i \in DOMAIN filters}

ParamNames(params) == {params[i][1] : i \in DOMAIN params}

\* C1: triggers for the same report type and the same filters (explicit and
\* global) made before the first request settles issue exactly one network
\* call: no two outstanding requests were issued for the same type under the
\* same options and the same global range.  (Callers chained on one promise
\* all observe its outcome.)
C1_Coalescing ==
    \A i, j \in Outstanding :
        i # j =>
            ~ /\ requests[i].type = requests[j].type
              /\ requests[i].options = requests[j].options
              /\ requests[i].issuedUnder = requests[j].issuedUnder

\* C2: once a request for a key has resolved successfully, every later call
\* of fetchReport with that key made before the next clearCache is answered
\* with the stored payload and issues no network call.
C2_CacheHit ==
    \A i \in Called :
        harness.results[i].afterSuccess =>
            /\ harness.results[i].kind = "cached"
            /\ harness.results[i].outcome = Resolved(harness.results[i].expected)

C2_Witness ==
    /\ 2 \in Called
    /\ harness.results[1].kind = "issued"
    /\ harness.results[2].afterSuccess
    /\ harness.results[2].outcome.state = "resolved"
    /\ Len(requests) = 1

\* C3: every parameter of the query string is named paramMap[key] for a key
\* of defaultFilters, of the global range or of options.filters that is in
\* the descriptor's paramMap, and named by the key itself otherwise.
C3_ParamMapping ==
    \A id \in Outstanding :
        LET req == requests[id]
            config == REPORT_CONFIG[req.type]
            keys == {config.defaultFilters[i][1] : i \in DOMAIN config.defaultFilters}
                    \cup (IF req.options.useGlobalFilters /\ config.supportsRange
                          THEN {"start", "end"} ELSE {})
                    \cup {req.options.filters[i][1] : i \in DOMAIN req.options.filters}
        IN  ParamNames(req.url.params) \subseteq {paramName(req.type, k) : k \in keys}

\* C4: two calls for the same type whose filter mappings hold the same
\* key/value pairs, in any insertion order, made under the same global range
\* compute the same cache key.
C4_DeterministicKey ==
    (Called = {1, 2}
        /\ harness.calls[1].type = harness.calls[2].type
        /\ harness.calls[1].options.useGlobalFilters = harness.calls[2].options.useGlobalFilters
        /\ PropsOf(harness.calls[1].options.filters) = PropsOf(harness.calls[2].options.filters)
        /\ harness.results[1].key[4] = harness.results[2].key[4])
    => harness.results[1].key = harness.results[2].key

\* C5: a request of a range-supporting type made with useGlobalFilters and an
\* explicit (non-empty) start carries the explicit value for the start bound
\* and not the global one: the explicit value is in the query, and no
\* parameter of the start bound has another value.
C5_ExplicitOverGlobal ==
    \A id \in Outstanding :
        LET req == requests[id]
            explicit == ObjGet(req.options.filters, "start")
            sent == {req.url.params[i] : i \in DOMAIN req.url.params} IN
        (/\ req.options.useGlobalFilters
         /\ REPORT_CONFIG[req.type].supportsRange
         /\ Truthy(explicit))
        => /\ \E p \in sent : p[2] = explicit
           /\ \A p \in sent : p[1] = paramName(req.type, "start") => p[2] = explicit

EmptyValues == {"", Null, Undefined}

EmptyKeys(merged) == {merged[i][1] : i \in {j \in DOMAIN merged : merged[j][2] \in EmptyValues}}

NoEmptyParams(params, names) ==
    /\ \A i \in DOMAIN params : params[i][2] \notin EmptyValues
    /\ names \cap ParamNames(params) = {}

\* C6: a key of the merged filters whose value is the empty string, null or
\* undefined names no parameter of the query string, and no parameter holds
\* such a value; in the caching variant and in the eager one.
C6_EmptyValuesDropped ==
    \A id \in Outstanding :
        LET req == requests[id]
            merged == mergeFilters(req.issuedUnder, req.type, req.options)
            mergedEager == mergeFiltersEager(req.issuedUnder, req.type, req.options) IN
        /\ NoEmptyParams(req.url.params, EmptyKeys(merged))
        /\ NoEmptyParams(buildUrlEager(req.issuedUnder, req.type, req.options).params,
                         {paramName(req.type, k) : k \in EmptyKeys(mergedEager)})

C6_Witness ==
    \E id \in Outstanding :
        /\ \E i \in DOMAIN requests[id].options.filters :
              requests[id].options.filters[i][2] = ""
        /\ \E i \in DOMAIN requests[id].options.filters :
              requests[id].options.filters[i][2] = Null
        /\ requests[id].url.params = << <<"page_size", "10">> >>

InFlightPending ==
    \A k \in DOMAIN loadingPromises :
        /\ loadingPromises[k] \in DOMAIN requests
        /\ requests[loadingPromises[k]].phase # "settled"

SettleRemovesEntry ==
    \A id \in DOMAIN requests :
        (requests[id].phase # "settled" /\ requests'[id].phase = "settled")
            => requests[id].key \notin DOMAIN loadingPromises'

\* C7: the step in which a request settles removes the in-flight entry of its
\* key, whatever the outcome, and no in-flight entry ever names a settled
\* promise: the next call with the key hits the cache or issues a request.
C7_InFlightCleanup == []InFlightPending /\ [][SettleRemovesEntry]_vars

C7_Witness ==
    /\ Called = {1, 2}
    /\ harness.results[1].kind = "issued"
    /\ harness.results[1].outcome.state = "rejected"
    /\ harness.results[2].kind = "issued"
    /\ harness.results[2].key = harness.results[1].key

\* C8: a failed request creates and changes no cache entry (the cache holds
\* what successful requests stored), and after the failure the cache has no
\* entry for the key of the failed request.
C8_FailureLeavesNoEntry ==
    /\ cache = stored
    /\ (lastSettled.phase = "settled" /\ lastSettled.outcome.state = "rejected")
          => lastSettled.key \notin DOMAIN cache

CallsUnknown(i) ==
    /\ harness.results[i].kind = "none"
    /\ harness'.results[i].kind # "none"
    /\ ~HasConfig(harness.calls[i].type)

UnknownRejects ==
    \A i \in DOMAIN harness.calls :
        CallsUnknown(i) =>
            /\ harness'.results[i].kind = "rejected"
            /\ harness'.results[i].outcome.state = "rejected"
            /\ UNCHANGED <<cache, loadingPromises, requests>>

\* C9: a call of fetchReport for a type that is not in the registry rejects
\* at once, issues no network call and leaves the cache and the in-flight
\* registry as they were.
C9_UnknownTypeRejects == [][UnknownRejects]_vars

C9_Witness ==
    /\ 2 \in Called
    /\ harness.results[2].kind = "rejected"
    /\ cache # EmptyMap
    /\ loadingPromises = EmptyMap
    /\ Len(requests) = 1

\* C10: a request ends with the timeout error exactly when its 30 s timer
\* fired while it was pending; the timeout error differs from the error of a
\* non-OK status.
C10_Timeout ==
    lastSettled.phase = "settled" =>
        /\ lastSettled.timer = "fired"
              <=> lastSettled.outcome = Rejected("Error", TimeoutMessage)
        /\ lastSettled.outcome.message = HttpMessage(500) => lastSettled.timer = "cleared"

C10_Witness ==
    /\ lastSettled.timer = "fired"
    /\ lastSettled.outcome.message = TimeoutMessage

\* C11: right after clearCache the cache is empty, the in-flight registry is
\* empty and no card element carries the loaded marker, whatever the state
\* clearCache is called in.
C11_ClearCachePostState ==
    LET s == clearCache(Dash) IN
    /\ s.cache = EmptyMap
    /\ s.loadingPromises = EmptyMap
    /\ \A card \in DOMAIN s.cardState : ~s.cardState[card].loaded

\* A request resolved and stored its payload, its card was marked loaded, and
\* the range apply that followed left neither.
C11_Witness ==
    /\ \E id \in DOMAIN requests :
          requests[id].phase = "settled" /\ requests[id].outcome.state = "resolved"
    /\ cache = EmptyMap
    /\ \E card \in CardIds : ~cardState[card].observed /\ ~cardState[card].loaded

RangeNames == {"start", "end", "fecha_inicio", "fecha_fin"}

NoRangeTypes == {type \in ReportTypes : ~REPORT_CONFIG[type].supportsRange}

\* The query of a card-summary fetch of a type without range support has no
\* range parameter and none of the global values.
NoRangeInQuery ==
    \A id \in Outstanding :
        LET req == requests[id] IN
        (req.type \in NoRangeTypes /\ req.options = Options(TRUE, <<>>))
        => /\ ParamNames(req.url.params) \cap RangeNames = {}
           /\ \A i \in DOMAIN req.url.params :
                  req.url.params[i][2] \notin {req.issuedUnder.start, req.issuedUnder.end}

\* Cards of one such type that come into view together issue one request.
NoRangeBatch ==
    \A type \in NoRangeTypes :
        LET shown == {card \in CardIds :
                        /\ cardState[card].type = type
                        /\ cardState[card].observed
                        /\ ~cardState'[card].observed}
            new == {id \in DOMAIN requests' \ DOMAIN requests : requests'[id].type = type}
        IN  Cardinality(shown) >= 2 => Cardinality(new) <= 1

\* C12: the query of a card-summary fetch of a type with supportsRange false
\* never holds the global start or end, whatever the global range is, and two
\* visibility triggers for such a type delivered together issue one request.
C12_NoRangeSupport == []NoRangeInQuery /\ [][NoRangeBatch]_vars

\* A range is applied, both inventory-cost cards have come into view and one
\* inventory-cost request, without parameters, is outstanding.
C12_Witness ==
    /\ Truthy(globalFilters.start)
    /\ \A card \in CardIds :
          cardState[card].type = "inventory-cost"
          => cardState[card].loaded /\ ~cardState[card].observed
    /\ Cardinality({id \in DOMAIN requests : requests[id].type = "inventory-cost"}) = 1
    /\ \E id \in Outstanding :
          /\ requests[id].type = "inventory-cost"
          /\ requests[id].issuedUnder = globalFilters
          /\ requests[id].url.params = <<>>
          /\ Len(requests[id].waiters) >= 2

\* C13: the click on range apply copies the two input values into the global
\* filter, leaves the cache empty and starts one load for every registered
\* card: each is a new request issued under the new range, registered as in
\* flight, and its card shows the loading state, not a cached payload.
C13_RangeApply ==
    \A range \in RangeInputs :
        LET s == applyRange(Dash, range[1], range[2])
            new == DOMAIN s.requests \ DOMAIN requests
            registered == cardsOrder(cardState, 1, {})
        IN  /\ s.globalFilters = [start |-> range[1], end |-> range[2]]
            /\ s.cache = EmptyMap
            /\ Cardinality(new) = Len(registered)
            /\ \A i \in DOMAIN registered :
                  LET card == cardsGet(cardState, registered[i]) IN
                  /\ s.cardState[card].loading
                  /\ s.cardState[card].value = Ellipsis
                  /\ \E id \in new :
                        /\ s.requests[id].type = registered[i]
                        /\ s.requests[id].issuedUnder = s.globalFilters
                        /\ s.requests[id].phase = "pending"
                        /\ s.loadingPromises[s.requests[id].key] = id

\* The first request resolved and was cached; range apply with the inputs
\* unchanged then emptied the cache and issued a request for each card.
C13_Witness ==
    /\ Len(requests) = 3
    /\ requests[1].phase = "settled" /\ requests[1].outcome.state = "resolved"
    /\ requests[2].phase = "pending" /\ requests[3].phase = "pending"
    /\ requests[2].issuedUnder = globalFilters
    /\ globalFilters.start = ""
    /\ cache = EmptyMap
    /\ cardState[1].value = Ellipsis

\* A run of modal m is a reaction of kind "modal" on a request.
RunsOn(reqs, id, m) ==
    \E i \in DOMAIN reqs[id].waiters :
        reqs[id].waiters[i].kind = "modal" /\ reqs[id].waiters[i].target = m

\* Between s and s2 no run of modal m started: no request was issued or
\* joined, nothing was rendered and the flags of a run are as they were.
NoRunStarted(s, s2, m) ==
    /\ s2.requests = s.requests
    /\ s2.modalState[m].loading = s.modalState[m].loading
    /\ s2.modalState[m].loadedOnce = s.modalState[m].loadedOnce
    /\ s2.modalState[m].content = s.modalState[m].content
    /\ s2.modalState[m].lastFilters = s.modalState[m].lastFilters

\* open() has taken effect on modal m before: it captured the focused element.
OpenedBefore(m) == modalState[m].previousActive # Undefined

C15_OpenWhenOpenNoOp ==
    \A m \in ModalIds, focused \in Elements :
        modalState[m].isOpen
        => /\ open(Dash, m, focused) = Dash
           /\ openModal(Dash, modalState[m].type, focused) = Dash

\* Modal m is open and has not loaded, another element had the focus when it
\* opened, and the active reference points to another open modal.
C15_Witness ==
    \E m, n \in ModalIds :
        /\ m # n
        /\ modalState[m].isOpen /\ modalState[n].isOpen
        /\ activeModal = n
        /\ ~modalState[m].loadedOnce /\ ~modalState[m].loading
        /\ modalState[m].previousActive = "trigger"

\* C16: close() on a modal that is closed changes nothing: no isOpen changes
\* and the active-modal reference stays, also when it points to another,
\* open modal.
C16_CloseWhenClosedNoOp ==
    \A m \in ModalIds : ~modalState[m].isOpen => close(Dash, m) = Dash

\* Modal m was opened and closed, and the active reference points to the
\* other modal, which is open.
C16_Witness ==
    \E m, n \in ModalIds :
        /\ ~modalState[m].isOpen /\ OpenedBefore(m)
        /\ modalState[n].isOpen
        /\ activeModal = n

\* C17: opening modal b while modal a is open leaves a open and points the
\* active reference to b; closing an open modal sets the reference to null
\* whichever modal it pointed to, and closes no other modal.
C17_SecondModal ==
    /\ \A a, b \in ModalIds, focused \in Elements :
          (a # b /\ modalState[a].isOpen /\ ~modalState[b].isOpen)
          => LET s == open(Dash, b, focused) IN
             /\ s.modalState[a].isOpen
             /\ s.modalState[b].isOpen
             /\ s.activeModal = b
    /\ \A m \in ModalIds :
          modalState[m].isOpen
          => LET s == close(Dash, m) IN
             /\ s.activeModal = NoModal
             /\ ~s.modalState[m].isOpen
             /\ \A n \in ModalIds \ {m} : s.modalState[n] = modalState[n]

\* Both modals were opened and one was closed: the other is open and the
\* active reference is null.
C17_Witness ==
    \E m, n \in ModalIds :
        /\ ~modalState[m].isOpen /\ OpenedBefore(m)
        /\ modalState[n].isOpen
        /\ activeModal = NoModal

\* C18: when the active reference points to modal M, Escape closes M, sets
\* the reference to null and leaves the other modals as they are; when the
\* reference is null, Escape changes nothing.
C18_Escape ==
    LET s == escapeKey(Dash) IN
    IF activeModal = NoModal THEN s = Dash
    ELSE /\ ~s.modalState[activeModal].isOpen
         /\ s.activeModal = NoModal
         /\ \A n \in ModalIds \ {activeModal} : s.modalState[n] = modalState[n]

\* Two modals are open, the reference points to the second and the run of
\* the first is in flight.
C18_Witness ==
    \E m, n \in ModalIds :
        /\ m # n
        /\ modalState[m].isOpen /\ modalState[n].isOpen
        /\ activeModal = n
        /\ modalState[m].loading

\* A modal whose loading flag is set has a run waiting on a request.
LoadingHasRun ==
    \A m \in ModalIds :
        modalState[m].loading => \E id \in Outstanding : RunsOn(requests, id, m)

\* The step in which a request settles clears the flag of the modals whose
\* runs waited on it.
SettleClearsLoading ==
    \A id \in DOMAIN requests, m \in ModalIds :
        (/\ requests[id].phase # "settled"
         /\ requests'[id].phase = "settled"
         /\ RunsOn(requests, id, m))
        => ~modalState'[m].loading

\* C19: when the request behind a run settles, resolved or rejected, the
\* loading flag of the modal is false; the flag is never left set without a
\* request that will clear it.
C19_LoadingCleared == []LoadingHasRun /\ [][SettleClearsLoading]_vars

\* A run of the modal was rejected and cleared the flag while another run of
\* the modal is still in flight.
C19_Witness ==
    /\ lastSettled.phase = "settled"
    /\ lastSettled.outcome.state = "rejected"
    /\ \E m \in ModalIds :
          /\ ~modalState[m].loading
          /\ \E id \in Outstanding : RunsOn(requests, id, m)

\* C20: runReport passes the values of the modal's own inputs and does not
\* ask for the global range: a request it issues has useGlobalFilters unset,
\* its start and end parameters are those of the inputs, and every request a
\* run waits on holds no range parameter that is not among its filters.
C20_ModalOwnFilters ==
    /\ \A m \in ModalIds :
          LET s == runReport(Dash, m)
              filters == collectFilters(Dash, m)
          IN  /\ s.modalState[m].lastFilters = filters
              /\ \A id \in DOMAIN s.requests \ DOMAIN requests :
                    /\ s.requests[id].options = Options(FALSE, filters)
                    /\ \A key \in {"start", "end"} :
                          Truthy(ObjGet(filters, key))
                          => <<key, ObjGet(filters, key)>> \in PropsOf(s.requests[id].url.params)
    /\ \A id \in Outstanding, m \in ModalIds :
          RunsOn(requests, id, m)
          => /\ ~requests[id].options.useGlobalFilters
             /\ \A p \in PropsOf(requests[id].url.params) :
                   p[1] \in RangeNames => p \in PropsOf(requests[id].options.filters)

\* A run is in flight that was started under a global range and whose start
\* is not the global one.
C20_Witness ==
    \E id \in Outstanding, m \in ModalIds :
        /\ RunsOn(requests, id, m)
        /\ Truthy(globalFilters.start)
        /\ requests[id].issuedUnder = globalFilters
        /\ ObjGet(requests[id].options.filters, "start") = "2024-02-01"
        /\ PropsOf(requests[id].url.params) = {<<"start", "2024-02-01">>}

(***************************************************************************)
(* Cards: busy marker, failures, lazy loading                              *)
(***************************************************************************)
\* The cards whose loadCardData issued request id: their .then / .catch /
\* .finally still wait on it.
StartedBy(reqs, id) ==
    {reqs[id].waiters[i].target :
        i \in {j \in DOMAIN reqs[id].waiters : reqs[id].waiters[j].kind = "card"}}

\* The value slot of the cards that started request id, once it settles
\* with `raw`, shows `value`.
SettleShows(id, raw, value) ==
    \A card \in StartedBy(requests, id) :
        settle(Dash, id, raw, "cleared").cardState[card].value = value

\* C21: a card whose summary request is still outstanding is marked busy (the
\* busy marker is cleared only when the card has no outstanding summary
\* request left), and the settle of its request leaves the formatted value in
\* the slot on success and an em-dash on failure.
C21_CardBusy ==
    /\ \A id \in Outstanding : \A card \in StartedBy(requests, id) :
          cardState[card].loading
    /\ \A id \in Outstanding :
          /\ \A data \in Payloads :
                SettleShows(id, Resolved(data), cardValue(requests[id].type, data))
          /\ SettleShows(id, Rejected("TypeError", "Failed to fetch"), EmDash)

\* The cards with a reaction chained on request id: the card that started
\* it and the cards that found it in flight.
WaitingCards(reqs, id) ==
    {reqs[id].waiters[i].target :
        i \in {j \in DOMAIN reqs[id].waiters :
                  reqs[id].waiters[j].kind \in {"card", "cardWaiter"}}}

ToastsOf(toasts) == {toasts[i] : i \in DOMAIN toasts}

\* The step in which a request that cards wait on rejects.
CardFailure ==
    \A id \in DOMAIN requests :
        (/\ requests[id].phase # "settled"
         /\ requests'[id].phase = "settled"
         /\ requests'[id].outcome.state = "rejected"
         /\ WaitingCards(requests, id) # {})
        => /\ \A card \in WaitingCards(requests, id) : cardState'[card].value = EmDash
           /\ <<CardErrorMessage, "error">> \in ToastsOf(lastSettled'.toasts)
           /\ lastSettled'.unhandled = 0

\* C22: whenever the summary fetch of a card rejects, the value slot of the
\* card that started the request and of every card that was waiting on it
\* shows an em-dash, an error toast is shown and no rejection is left
\* unhandled.
C22_CardFailure == [][CardFailure]_vars

\* A request that one card started and a second card waited on was rejected:
\* both slots show the em-dash and the error toast was shown.
C22_Witness ==
    /\ lastSettled.phase = "settled"
    /\ lastSettled.outcome.state = "rejected"
    /\ lastSettled.toasts = << <<CardErrorMessage, "error">> >>
    /\ lastSettled.unhandled = 0
    /\ \E c, d \in CardIds :
          /\ c # d
          /\ cardState[c].type = cardState[d].type
          /\ cardState[c].value = EmDash /\ cardState[d].value = EmDash
          /\ ~cardState[c].observed /\ ~cardState[d].observed

\* The step in which the request behind a run of modal m rejects.
ModalFailure ==
    \A id \in DOMAIN requests, m \in ModalIds :
        (/\ requests[id].phase # "settled"
         /\ requests'[id].phase = "settled"
         /\ requests'[id].outcome.state = "rejected"
         /\ RunsOn(requests, id, m))
        => /\ modalState'[m].content = modalState[m].content
           /\ modalState'[m].loadedOnce = modalState[m].loadedOnce
           /\ <<RunErrorMessage, "error">> \in ToastsOf(lastSettled'.toasts)
           /\ lastSettled'.unhandled = 0

\* C23: when the request of a runReport rejects, the summary fields and the
\* table rows the modal shows stay as they were, an error toast is shown and
\* the run does not set loadedOnce.
C23_ModalFailure == [][ModalFailure]_vars

\* A run of the modal resolved and was rendered, a later run was rejected: the
\* modal still shows the rendered payload and the error toast was shown.
C23_Witness ==
    /\ lastSettled.phase = "settled"
    /\ lastSettled.outcome.state = "rejected"
    /\ <<RunErrorMessage, "error">> \in ToastsOf(lastSettled.toasts)
    /\ \E m \in ModalIds :
          /\ modalState[m].resolved
          /\ modalState[m].content.summary = "RD$2,500.00"
          /\ modalState[m].content.rows = 2
          /\ ~modalState[m].loading

\* C24: between two consecutive clearCache calls (or from startup to the
\* first) the intersection events of a card start at most one summary load,
\* and the card whose load they started is marked loaded and is no longer
\* observed.
C24_LazyLoadOnce ==
    \A card \in CardIds :
        /\ cardState[card].lazyLoads <= 1
        /\ cardState[card].lazyLoads = 1
              => cardState[card].loaded /\ ~cardState[card].observed

\* The observer started the load of a card, which is marked and unobserved
\* while its request is in flight; another card has not been in view yet.
C24_Witness ==
    \E c, d \in CardIds :
        /\ cardState[c].lazyLoads = 1 /\ cardState[c].loaded /\ ~cardState[c].observed
        /\ \E id \in Outstanding : c \in StartedBy(requests, id)
        /\ cardState[d].lazyLoads = 0 /\ cardState[d].observed

\* C25: lazy loading is re-armed by clearCache: a card whose loaded marker is
\* not set (never set, or reset by clearCache after a load by visibility) is
\* observed, so that its next intersection is delivered to the callback, and
\* the callback starts its summary load.
C25_LazyReArmed ==
    \A card \in CardIds :
        ~cardState[card].loaded
        => /\ cardState[card].observed
           /\ intersectEntry(Dash, card).cardState[card].lazyLoads = 1

(***************************************************************************)
(* Unconfigured report types                                               *)
(***************************************************************************)
UnknownCards == {card \in CardIds : ~HasConfig(cardState[card].type)}

UnknownModals == {m \in ModalIds : ~HasConfig(modalState[m].type)}

\* The observer callback on a card of an unconfigured type: the card is
\* marked and unobserved, and nothing else happens.
VisibilityIgnored(card) ==
    intersectEntry(Dash, card) =
        [Dash EXCEPT !.cardState[card].loaded = TRUE,
                     !.cardState[card].observed = FALSE,
                     !.cardState[card].lazyLoads = @ + 1]

\* C26: a report type absent from REPORT_CONFIG is ignored wherever the markup
\* names it: the click on such a card does nothing, no modal is registered
\* for it (its element never opens or loads and is never the active modal),
\* openModal on the type does nothing, and the visibility trigger on such a
\* card issues no request, shows no toast and leaves no rejection.
C26_UnknownTypeIgnored ==
    /\ \A card \in UnknownCards, focused \in Elements :
          /\ cardClick(Dash, card, focused) = Dash
          /\ openModal(Dash, cardState[card].type, focused) = Dash
          /\ cardState[card].value = "" /\ ~cardState[card].loading
          /\ ~cardState[card].loaded => VisibilityIgnored(card)
    /\ \A m \in UnknownModals :
          /\ modalsGet(modalState, modalState[m].type) = NoModal
          /\ modalState[m] = NewModal(modalState[m].type, <<>>)
          /\ activeModal # m
    /\ \A id \in DOMAIN requests : \A i \in DOMAIN requests[id].waiters :
          LET w == requests[id].waiters[i] IN
          /\ w.kind = "modal" => w.target \notin UnknownModals
          /\ w.kind \in {"card", "cardWaiter"} => w.target \notin UnknownCards

\* The card of the unconfigured type came into view together with the
\* configured one: it is marked and unobserved, its slot is as the markup had
\* it, and the only request is the one of the configured card.
C26_Witness ==
    /\ \E card \in UnknownCards :
          /\ cardState[card].lazyLoads = 1
          /\ cardState[card].loaded /\ ~cardState[card].observed
          /\ cardState[card].value = ""
    /\ Len(requests) = 1
    /\ \E card \in CardIds \ UnknownCards : StartedBy(requests, 1) = {card}

(***************************************************************************)
(* The table of a modal                                                    *)
(***************************************************************************)
\* The payloads that are no container: neither an object nor an array.
NotContainer(data) == data.kind \notin {"object", "array"}

\* The header-cell count of the table of modal m, 1 when it has no header.
HeaderCellCount(m) ==
    IF modalState[m].table.inTable /\ modalState[m].table.headerCells >= 1
    THEN modalState[m].table.headerCells ELSE 1

\* C27: after render(data) on a modal with a table body, if rowsExtractor
\* yields zero rows for data (as it does for every payload that is not a
\* container) the body is exactly one row whose single cell spans the
\* header-cell count of the table (1 without a header) and carries the
\* emptyMessage of the descriptor; otherwise the body has exactly one row per
\* extracted record, in order.
C27_EmptyStateFallback ==
    \A m \in ModalIds :
        (modalState[m].rendered.done /\ modalState[m].table.hasBody)
        => LET type == modalState[m].type
               data == modalState[m].rendered.data
               rows == rowsExtractor(type, data)
               body == modalState[m].tableBody
           IN  /\ NotContainer(data) => rows = <<>>
               /\ rows = <<>>
                     => /\ Len(body) = 1
                        /\ body[1].class = "report-empty-state"
                        /\ body[1].colspan = HeaderCellCount(m)
                        /\ body[1].text = emptyMessage(type)
               /\ rows # <<>>
                     => /\ Len(body) = Len(rows)
                        /\ \A i \in DOMAIN rows : body[i] = renderRow(type, rows[i])

\* null was rendered into a table of two or more header cells: one cell that
\* spans them all.
C27_Witness ==
    \E m \in ModalIds :
        /\ modalState[m].rendered.done
        /\ modalState[m].rendered.data = JsNull
        /\ modalState[m].table.headerCells >= 2
        /\ Len(modalState[m].tableBody) = 1
        /\ modalState[m].tableBody[1].colspan = modalState[m].table.headerCells

(***************************************************************************)
(* Requests that outlive a clearCache                                      *)
(***************************************************************************)
\* C28: at most one network request is outstanding per cache key, also when
\* the range is applied (clearCache) while a request for the key is in flight.
C28_OneRequestPerKey ==
    \A i, j \in Outstanding : requests[i].key = requests[j].key => i = j

\* The step in which request id settles leaves the in-flight entries that
\* hold the promise of another request.
SettleKeepsOthers ==
    \A id \in DOMAIN requests :
        (requests[id].phase # "settled" /\ requests'[id].phase = "settled")
        => \A k \in DOMAIN loadingPromises :
              loadingPromises[k] # id
              => /\ k \in DOMAIN loadingPromises'
                 /\ loadingPromises'[k] = loadingPromises[k]

\* C29: the settle of a request removes an in-flight entry only if the entry
\* holds the promise of that request: a request that was in flight when
\* clearCache ran never deletes the entry a newer request registered for the
\* same key, and every entry holds a request that is outstanding.
C29_SettleRemovesOwnEntry == []InFlightPending /\ [][SettleKeepsOthers]_vars

\* The registered cards of the types that take the global range.
RangeCards ==
    {cardsGet(cardState, type) :
        type \in {t \in DOMAIN REPORT_CONFIG :
                     /\ REPORT_CONFIG[t].supportsRange
                     /\ \E card \in CardIds : cardState[card].type = t}}

\* What a card may show for the current global range once nothing is
\* outstanding: the value of the payload the latest successful request under
\* the current range resolved with, or the em-dash when a request under the
\* current range failed.
CurrentRangeValues(card) ==
    LET type == cardState[card].type
        cacheKey == generateCacheKey(globalFilters, type, Options(TRUE, <<>>))
    IN  IF cacheKey \in DOMAIN stored
        THEN {cardValue(type, stored[cacheKey]), EmDash} ELSE {EmDash}

\* C30: once every request has settled, each card of a range-supporting type
\* that was loaded shows the value of a response to a request made under the
\* current global range (the em-dash when it failed), in whatever order the
\* requests issued before and after a range apply completed.
C30_CardShowsCurrentRange ==
    Outstanding = {}
    => \A card \in RangeCards :
          cardState[card].value # "" => cardState[card].value \in CurrentRangeValues(card)

(***************************************************************************)
(* Overlapping runs of a modal                                             *)
(***************************************************************************)
\* The payloads that requests of modal m made with its lastFilters have
\* resolved with since the last clearCache.
LastFiltersPayloads(m) ==
    {stored[k] : k \in {key \in DOMAIN stored :
                           /\ key[1] = modalState[m].type
                           /\ key[2] = "custom"
                           /\ key[3] = JSONstringify(modalState[m].lastFilters)}}

\* What the modal shows when `data` was rendered last.
Rendered(data) == [summary |-> Coalesce(data.display, EmDash), rows |-> data.rows]

\* C31: when runs of a modal with different filter values overlap, then once
\* all requests have settled the modal shows the payload of the run that was
\* started last, the one whose filters are lastFilters, in whatever order
\* the requests completed.
C31_LatestRunRendered ==
    \A m \in ModalIds :
        (Outstanding = {} /\ LastFiltersPayloads(m) # {})
        => modalState[m].content \in {Rendered(data) : data \in LastFiltersPayloads(m)}

\* C32: the loading flag of a modal is set exactly when a request that one of
\* its runs waits on has not settled, also when two runs with different
\* filters overlap.
C32_LoadingIffPending ==
    \A m \in ModalIds :
        modalState[m].loading <=> \E id \in Outstanding : RunsOn(requests, id, m)

(***************************************************************************)
(* Closing a modal during a run                                            *)
(***************************************************************************)
\* Modal m is closed and request id, on which a run of m waits, resolves
\* with data: the payload is cached under the key of the run and rendered,
\* loadedOnce is set and the next open starts no run.
ClosedRunResolves(m, id, data) ==
    LET s == settle(Dash, id, Resolved(data), "cleared") IN
    /\ s.requests[id].phase = "settled"
    /\ requests[id].key \in DOMAIN s.cache
    /\ s.cache[requests[id].key] = data
    /\ s.modalState[m].content = Rendered(data)
    /\ s.modalState[m].loadedOnce
    /\ ~s.modalState[m].isOpen
    /\ \A focused \in Elements :
          LET s2 == open(s, m, focused)
          IN  s2.modalState[m].isOpen /\ NoRunStarted(s, s2, m)

\* C33: closing a modal while its run is in flight does not cancel the
\* request: close leaves the requests and the reactions on them as they are,
\* and when the request of a closed modal resolves the payload is stored in
\* the cache under the key of the run and rendered into the modal, and
\* loadedOnce is set, so that the next open starts no run.
C33_CloseDuringRun ==
    \A m \in ModalIds :
        /\ close(Dash, m).requests = requests
        /\ ~modalState[m].isOpen
              => \A id \in Outstanding, data \in Payloads :
                    RunsOn(requests, id, m) => ClosedRunResolves(m, id, data)

\* The modal was closed while its first run is in flight: the response
\* has arrived and its body is being read.
C33_Witness ==
    \E m \in ModalIds, id \in Outstanding :
        /\ ~modalState[m].isOpen /\ OpenedBefore(m)
        /\ ~modalState[m].loadedOnce /\ modalState[m].loading
        /\ RunsOn(requests, id, m)
        /\ requests[id].phase = "body"

(***************************************************************************)
(* The active reference and the open modals                                *)
(***************************************************************************)
\* C34: whenever the active reference of the controller is not null, it
\* points to a modal whose isOpen is true.
C34_ActiveIsOpen ==
    activeModal # NoModal
    => (activeModal \in ModalIds /\ modalState[activeModal].isOpen)

\* Two modals are open, both have rendered their first run, and the
\* reference points to one of them.
C34_Witness ==
    \E m, n \in ModalIds :
        /\ m # n
        /\ modalState[m].isOpen /\ modalState[n].isOpen
        /\ modalState[m].loadedOnce /\ modalState[n].loadedOnce
        /\ activeModal = n

\* C35: whenever at least one modal is open the active reference is not
\* null, so that an Escape keydown closes an open modal.
C35_OpenHasActive ==
    (\E m \in ModalIds : modalState[m].isOpen)
    => /\ activeModal # NoModal
       /\ \E m \in ModalIds : modalState[m].isOpen /\ ~escapeKey(Dash).modalState[m].isOpen

(***************************************************************************)
(* Cache entries and the global range                                      *)
(***************************************************************************)
GlobalRanges == {[start |-> r[1], end |-> r[2]] : r \in RangeInputs}

\* Every entry the step writes into the cache is the payload of a request
\* that resolves in the step, under the key of that request, and a fetch of
\* the request's type and options has that key under no other global range
\* than the one the request was issued under.
CacheWrittenUnderOwnRange ==
    \A k \in DOMAIN cache' :
        (k \notin DOMAIN cache \/ cache'[k] # cache[k])
        => \E id \in Outstanding :
              /\ requests'[id].phase = "settled"
              /\ requests'[id].outcome = Resolved(cache'[k])
              /\ requests[id].key = k
              /\ \A gf \in GlobalRanges :
                    generateCacheKey(gf, requests[id].type, requests[id].options) = k
                    => gf = requests[id].issuedUnder

\* A fetch with the global filters is answered from the cache only with the
\* entry under the key of the current global range.
HitUnderCurrentRange ==
    \A type \in ReportTypes :
        LET options == Options(TRUE, <<>>)
            r == fetchReport(Dash, type, options)
            k == generateCacheKey(globalFilters, type, options)
        IN  r.promise.outcome.state = "resolved"
            => /\ k \in DOMAIN cache
               /\ r.promise.outcome = Resolved(cache[k])
               /\ \A gf \in GlobalRanges \ {globalFilters} :
                     generateCacheKey(gf, type, options) # k

\* C36: a cache hit of a fetch with the global filters never returns a
\* payload of a request made under another global range than the current
\* one: the hit reads the entry under the key of the current range, and every
\* entry is written by a request issued under the range of its key, also when
\* the request settles after the clearCache of a later range apply.
C36_HitIsCurrentRange == []HitUnderCurrentRange /\ [][CacheWrittenUnderOwnRange]_vars

\* A request issued before a range apply has settled after it: the cache
\* holds its payload under the key of the old range, a fetch of the same
\* type under the current range finds no entry.
C36_Witness ==
    \E k \in DOMAIN cache :
        /\ k[2] = "global"
        /\ k # generateCacheKey(globalFilters, k[1], Options(TRUE, <<>>))
        /\ generateCacheKey(globalFilters, k[1], Options(TRUE, <<>>)) \notin DOMAIN cache
        /\ lastSettled.phase = "settled" /\ lastSettled.key = k

(***************************************************************************)
(* Card fetches and modal fetches                                          *)
(***************************************************************************)
Restrict(map, mode) == [k \in {key \in DOMAIN map : key[2] = mode} |-> map[k]]

\* The dashboard with the entries of the given mode only in the cache and
\* in the registry.
EntriesOf(mode) ==
    [Dash EXCEPT !.cache = Restrict(@, mode), !.loadingPromises = Restrict(@, mode)]

\* The requests the cards wait on are made with the global filters, the
\* requests the modals wait on without them, under keys that say so.
WaitersByMode ==
    \A id \in Outstanding :
        /\ WaitingCards(requests, id) # {}
              => requests[id].options.useGlobalFilters /\ requests[id].key[2] = "global"
        /\ (\E m \in ModalIds : RunsOn(requests, id, m))
              => ~requests[id].options.useGlobalFilters /\ requests[id].key[2] = "custom"

\* C37: a card fetch and a modal fetch of the same report type have
\* different cache keys.  Whatever the cards have put into the cache and the
\* registry, a run of a modal issues a request of its own and renders nothing
\* from the cache; whatever the modals have put there, the load of a card
\* issues a request of its own; no request has a card and a modal waiting.
C37_CardAndModalKeysDiffer ==
    /\ WaitersByMode
    /\ \A m \in constructedModals(modalState) :
          LET type == modalState[m].type
              filters == collectFilters(Dash, m)
              s == runReport(EntriesOf("global"), m)
          IN  /\ generateCacheKey(globalFilters, type, Options(FALSE, filters))
                    # generateCacheKey(globalFilters, type, Options(TRUE, <<>>))
              /\ Len(s.requests) = Len(requests) + 1
              /\ \A id \in DOMAIN requests : s.requests[id] = requests[id]
              /\ s.modalState[m].content = modalState[m].content
              /\ s.modalState[m].loadedOnce = modalState[m].loadedOnce
    /\ \A card \in CardIds :
          HasConfig(cardState[card].type)
          => LET s == loadCardData(EntriesOf("custom"), card, cardState[card].type)
             IN  /\ Len(s.requests) = Len(requests) + 1
                 /\ \A id \in DOMAIN requests : s.requests[id] = requests[id]
                 /\ s.cardState[card].loading

\* A card and the modal of its type each wait on a request of their own,
\* both for the same URL.
C37_Witness ==
    \E i, j \in Outstanding :
        /\ i # j
        /\ WaitingCards(requests, i) # {}
        /\ \E m \in ModalIds : RunsOn(requests, j, m)
        /\ requests[i].type = requests[j].type
        /\ requests[i].url = requests[j].url

(***************************************************************************)
(* Progress: the page of the cards with the timers of fetchReport.  What   *)
(* the code schedules itself is setTimeout(() => controller.abort(), 30000):*)
(* a timer that stays armed elapses.  Whether and when the network answers *)
(* is not in the hands of the code.                                        *)
(***************************************************************************)
\* The timer of request id elapses.
TimerElapses(id) == id \in DOMAIN requests /\ TimeoutFires(id)

SpecLive ==
    Init /\ [][Next]_vars /\ \A id \in 1..MaxRequests : WF_vars(TimerElapses(id))

\* C38: every issued request eventually settles, by a response, by an error
\* or by the abort after 30 seconds, so that the in-flight registry
\* eventually becomes empty and a caller of fetchReport does not wait for ever.
C38_EveryRequestSettles ==
    /\ \A id \in 1..MaxRequests : (id \in Outstanding) ~> (id \notin Outstanding)
    /\ (loadingPromises # EmptyMap) ~> (loadingPromises = EmptyMap)

(***************************************************************************)
(* open() and the filter inputs: pages with the range picker and one      *)
(* modal with data-filter inputs named start and end, of a type that       *)
(* supports the range on one page and of a type that does not on the other.*)
(***************************************************************************)
SyncTypes == {"total-sales", "inventory-cost"}

InitSync ==
    /\ globalFilters = [start |-> "", end |-> ""]
    /\ InitDashboard
    /\ cardState = <<>>
    /\ harness = NoHarness
    /\ modalState \in {<<NewModal(type, <<"start", "end">>)>> : type \in SyncTypes}

\* The requests of a behavior of SpecSync.
MaxSyncRuns == 1

\* Click on the card of the modal's type.
OpenSync(type, focused) ==
    LET s1 == openModal(Dash, type, focused)
    IN  /\ Len(s1.requests) <= MaxSyncRuns
        /\ \A id \in DOMAIN s1.requests : Len(s1.requests[id].waiters) <= MaxWaiters
        /\ Becomes(s1)

NextSync ==
    \/ \E type \in SyncTypes, focused \in Elements : OpenSync(type, focused)
    \/ \E m \in ModalIds : CloseClick(m)
    \/ \E m \in ModalIds, value \in InputValues :
          \E i \in DOMAIN modalState[m].inputs : TypeInput(m, i, value)
    \/ \E range \in RangeInputs : RangeApply(range[1], range[2])
    \/ Network

SpecSync == InitSync /\ [][NextSync]_vars

\* The value of the global filter an input named key is synchronised with.
GlobalValue(key) ==
    IF key = "start" THEN globalFilters.start
    ELSE IF key = "end" THEN globalFilters.end ELSE ""

\* C39: open() copies the global start / end into the start / end input of
\* the modal when, and only when, the descriptor supports the range, the
\* global value is not empty and the input is empty; an input that is not
\* empty is never overwritten, and no input of a modal whose descriptor has
\* supportsRange false changes.
C39_SyncOnOpen ==
    \A m \in ModalIds, focused \in Elements :
        ~modalState[m].isOpen
        => LET s == open(Dash, m, focused)
               before == modalState[m].inputs
               after == s.modalState[m].inputs
               copied(i) == /\ REPORT_CONFIG[modalState[m].type].supportsRange
                            /\ before[i][1] \in {"start", "end"}
                            /\ GlobalValue(before[i][1]) # ""
                            /\ before[i][2] = ""
           IN  /\ s.modalState[m].isOpen
               /\ DOMAIN after = DOMAIN before
               /\ \A i \in DOMAIN before :
                     /\ after[i][1] = before[i][1]
                     /\ after[i][2] = IF copied(i) THEN GlobalValue(before[i][1])
                                      ELSE before[i][2]
                     /\ before[i][2] # "" => after[i][2] = before[i][2]
                     /\ ~REPORT_CONFIG[modalState[m].type].supportsRange
                           => after[i] = before[i]

\* The modal was opened under a range with both ends set: it got the global
\* start in its empty start input and kept what the user had typed into its
\* end input, and ran with both.
C39_Witness ==
    \E m \in ModalIds :
        /\ REPORT_CONFIG[modalState[m].type].supportsRange
        /\ modalState[m].isOpen
        /\ globalFilters = [start |-> "2024-01-01", end |-> "2024-01-31"]
        /\ modalState[m].inputs = << <<"start", "2024-01-01">>, <<"end", "2024-02-01">> >>
        /\ modalState[m].lastFilters = modalState[m].inputs

(***************************************************************************)
(* The two variants of fetchReport                                         *)
(***************************************************************************)
\* What a URL asks for: the endpoint and the parameters, name and value.
Asked(url) == [endpoint |-> url.endpoint, params |-> PropsOf(url.params)]

\* C40: whenever the caching variant goes to the network, the eager variant
\* called with the same report type, global filters, useGlobalFilters flag
\* and explicit filters asks for the same URL: the same endpoint and the
\* same parameter names and values.
C40_VariantsAskSameUrl ==
    \A id \in Outstanding :
        Asked(requests[id].url)
            = Asked(buildUrlEager(requests[id].issuedUnder, requests[id].type,
                                  requests[id].options))

====
